---- MODULE Spec2Model ----
(***************************************************************************)
(* A model of src/utils.js of aws-api-gateway: the throttled, retrying     *)
(* request scheduler (retry, processNextQueueElement,                      *)
(* throttleAwsRequestRequest) and the callers that provision and remove    *)
(* API Gateway resources through it.                                       *)
(***************************************************************************)
EXTENDS Integers, Sequences, FiniteSets, TLC

VARIABLES
    \* ---- scheduler (src/utils.js 29-60) ----
    requestQueue,   \* the FIFO of submitted, not yet dispatched operations
    concurrency,    \* the in-flight counter
    timeout,        \* the timer handle: "null" or "set"
    timerLeft,      \* time left until the pending timer is due
    opState,        \* per operation: new, queued, calling, backoff, settled, done
    hist,           \* per operation in flight: the outcome of each attempt so far
    delivered,      \* per operation: what the submitter's promise settled with
    owner,          \* per operation: the createIntegration call that submitted it
    nextOp,         \* the next unused operation
    decs,           \* per operation: how often its completion decremented concurrency
    sinceDispatch,  \* time elapsed since the last dispatch start (capped)
    lastGap,        \* time between the last two dispatch starts (capped), -1 if fewer
    \* ---- createIntegration callers (src/utils.js 318-391) ----
    isLambda,       \* per endpoint: !!endpoint.function
    epPc,           \* per endpoint: where its createIntegration call stands
    \* ---- validateEndpointObject (src/utils.js 145-190) ----
    nPc,            \* "input", "once" (validated), "twice" (result validated again)
    nEndpoint,      \* the endpoint declaration handed in
    nFirst,         \* the result of validating nEndpoint
    nSecond,        \* the result of validating nFirst's endpoint
    \* ---- the remote API (what apig.* calls read and change) ----
    resources,      \* the resource nodes: [id, path, parentId, methods]
    nextId,         \* the id the remote gives to the next node or authorizer
                    \* it creates
    \* ---- validateEndpoint (src/utils.js 112-143, 192-204) ----
    vPc,            \* "start", "getPathId", "getMethod", "done"
    vEndpoint,      \* the endpoint declaration
    vState,         \* the prior state's endpoints: a list, or Undefined
    vValidated,     \* validateEndpointObject's result
    vResourceId,    \* getPathId's result
    vResponse,      \* what apig.getMethod answered, "none" when not called
    vResult,        \* what validateEndpoint returned, or the Error it threw
    \* ---- createPaths / createPath (src/utils.js 216-254) ----
    cpPc,           \* "run", "done", "failed"
    cpEndpoints,    \* the endpoints handed to createPaths, with the ids set so far
    cpIdx,          \* the endpoint createPaths is at
    cpStack,        \* the pending createPath calls, the innermost last
    cpExisting,     \* the id of the node that had the endpoint's path when
                    \* createPaths called createPath for it, 0 if none had
    cpCreates,      \* createResource calls issued since that call
    \* ---- removeOutdatedEndpoints (src/utils.js 403-476, 544-605) ----
    authorizers,    \* the remote API's authorizers: [id, name]
    gcPc,           \* "removeResources", "deleteResources", "removeMethods",
                    \* "removeAuthorizers", "done", "failed"
    gcEndpoints,    \* the desired endpoints
    gcState,        \* the prior state's endpoints (stateEndpoints)
    gcQueue,        \* the remote calls submitted and not yet made, in order
    gcRejected,     \* a remote call of the phase has failed
    gcLog,          \* the remote calls made so far, in order
    \* ---- createAuthorizers / createAuthorizer (src/utils.js 484-542) ----
    caPc,           \* "call", "getAuthorizers", "createAuthorizer", "addPermission",
                    \* "done", "failed"
    caEndpoints,    \* the endpoints handed in, with the authorizerIds set so far
    caIdx,          \* the endpoint createAuthorizers is at
    caCreated,      \* the id of the authorizer created for that endpoint, 0 if none
    caLog,          \* the authorizer calls made so far, in order
    \* ---- createMethods / createMethod (src/utils.js 256-316) ----
    cmPc,           \* "run", "done" (every createMethod call is over)
    cmEndpoints,    \* the endpoints handed in
    cmQueue,        \* the remote calls submitted and not yet made, in order
    cmStatus,       \* per endpoint: "pending", "returned", "thrown"
    cmCalls         \* per endpoint: what its calls were answered, and the
                    \* method's authorizer before its putMethod (-1: no method)

schedVars == <<requestQueue, concurrency, timeout, timerLeft, opState, hist,
               delivered, owner, nextOp, decs, sinceDispatch, lastGap>>
callerVars == <<isLambda, epPc>>

normVars == <<nPc, nEndpoint, nFirst, nSecond>>

remoteVars == <<resources, nextId>>
validateVars == <<vPc, vEndpoint, vState, vValidated, vResourceId, vResponse, vResult>>

pathVars == <<cpPc, cpEndpoints, cpIdx, cpStack, cpExisting, cpCreates>>

gcVars == <<authorizers, gcPc, gcEndpoints, gcState, gcQueue, gcRejected, gcLog>>

authVars == <<caPc, caEndpoints, caIdx, caCreated, caLog>>

methodVars == <<cmPc, cmEndpoints, cmQueue, cmStatus, cmCalls>>

vars == <<schedVars, callerVars, normVars, remoteVars, validateVars, pathVars, gcVars,
          authVars, methodVars>>

\* What the scheduler's steps leave alone.
outsideScheduler == <<normVars, remoteVars, validateVars, pathVars, gcVars,
                      authVars, methodVars>>

\* ------------------------------------------------------------------------
\* Bounds of the model
\* ------------------------------------------------------------------------
MaxOps == 3          \* operations submitted in one run
MaxCallers == 2      \* endpoints handed to createIntegrations
TimeStep == 100      \* the granularity of the model's clock, in ms
MaxPathLen == 4      \* characters of a declared endpoint path
MaxEndpoints == 2    \* endpoints handed to createPaths
MaxPrior == 2        \* endpoints of the prior state handed to removeOutdatedEndpoints

\* ------------------------------------------------------------------------
\* Program constants
\* ------------------------------------------------------------------------
MAX_CONCURRENCY == 1
MIN_DELAY == 200
retries == 5

Ops == 1..MaxOps
Callers == 1..MaxCallers

\* What one attempt of the wrapped remote call can answer with.
Outcomes == {"ok", "TooManyRequestsException", "ConflictException", "InternalFailure"}

Min(a, b) == IF a < b THEN a ELSE b
Max(a, b) == IF a > b THEN a ELSE b

\* ------------------------------------------------------------------------
\* JavaScript values. A string is a sequence of one-character strings.
\* ------------------------------------------------------------------------
Undefined == [t |-> "undefined"]
Num(n) == [t |-> "number", n |-> n]
Str(s) == [t |-> "string", s |-> s]

\* !v
Falsy(v) ==
    \/ v.t = "undefined"
    \/ v.t = "number" /\ v.n = 0
    \/ v.t = "string" /\ v.s = <<>>

\* ------------------------------------------------------------------------
\* retry (src/utils.js 4-24)
\* ------------------------------------------------------------------------

\* Lines 10-14 with every error thrown as it is (no abort).
AttemptNeverAborts(outcome) ==
    IF outcome = "ok" THEN [kind |-> "return", value |-> "ok"]
    ELSE [kind |-> "throw", value |-> outcome]

\* The async function handed to pRetry: returns the value, throws a rate
\* error as it is, wraps any other error in pRetry.AbortError.
Attempt(outcome) ==
    IF outcome = "ok" THEN [kind |-> "return", value |-> "ok"]
    ELSE IF outcome # "TooManyRequestsException"
         THEN [kind |-> "abort", value |-> outcome]
         ELSE [kind |-> "throw", value |-> outcome]

\* retries: 5 read as five attempts in all.
MoreAttemptsOneLess(made) == made < retries

\* pRetry with { retries }: after `made` failed attempts another one is made
\* while the number of retries so far (made - 1) is below retries.
MoreAttempts(made) == made - 1 < retries

\* pRetry's verdict on the result r of attempt number `made`:
\* resolve with the value, reject with the error (an AbortError's original
\* error), or retry.
retry(made, r) ==
    IF r.kind = "return" THEN [verdict |-> "resolve", value |-> r.value]
    ELSE IF r.kind = "abort" THEN [verdict |-> "reject", value |-> r.value]
    ELSE IF MoreAttempts(made) THEN [verdict |-> "retry", value |-> r.value]
    ELSE [verdict |-> "reject", value |-> r.value]

\* ------------------------------------------------------------------------
\* Scheduler (src/utils.js 29-60)
\* ------------------------------------------------------------------------

\* Line 41 without the ceiling.
DispatchAlways(c) == TRUE

\* Line 41: concurrency < MAX_CONCURRENCY
BelowCeiling(c) == c < MAX_CONCURRENCY

\* next().then(...) with a queue element that passes no rejection handler:
\* the decrement runs after a success only.
NextFulfilsOnSuccess(verdict) == verdict = "resolve"

\* Lines 44-46 and 54: the queue element is retry(...).then(resolve, reject),
\* a promise that fulfils whether retry resolved or rejected, so the
\* decrement callback runs in both cases.
NextFulfils(verdict) == verdict \in {"resolve", "reject"}

\* Line 49 with the handle dropped once the queue has drained.
TimeoutDroppedWhenDrained(q) == IF Len(q) = 0 THEN "null" ELSE "set"

\* Line 49: timeout = setTimeout(processNextQueueElement, MIN_DELAY),
\* whatever is left in the queue.
TimeoutAfterPass(q) == "set"

\* processNextQueueElement (lines 35-50) run on the queue q, with st the
\* operations' states (q and st differ from the current ones when the call
\* comes from throttleAwsRequestRequest, right after its push).
processNextQueueElement(q, st) ==
    IF Len(q) = 0
    THEN /\ timeout' = "null"
         /\ timerLeft' = 0
         /\ requestQueue' = q
         /\ opState' = st
         /\ UNCHANGED <<concurrency, sinceDispatch, lastGap>>
    ELSE /\ IF BelowCeiling(concurrency)
            THEN /\ concurrency' = concurrency + 1
                 /\ requestQueue' = Tail(q)
                 \* next(): retry starts the first attempt at once
                 /\ opState' = [st EXCEPT ![Head(q)] = "calling"]
                 /\ lastGap' = sinceDispatch
                 /\ sinceDispatch' = 0
            ELSE /\ requestQueue' = q
                 /\ opState' = st
                 /\ UNCHANGED <<concurrency, sinceDispatch, lastGap>>
         /\ timeout' = TimeoutAfterPass(requestQueue')
         /\ timerLeft' = IF timeout' = "set" THEN MIN_DELAY ELSE 0

\* Line 56 never finding the loop idle.
NoTimeoutNever(t) == FALSE

\* Line 56: !timeout
NoTimeout(t) == t = "null"

\* No promise reaction is waiting to run: timers and I/O callbacks run only
\* once the microtask queue is empty.
NoMicrotask == \A o \in Ops : opState[o] # "settled"

\* throttleAwsRequestRequest (lines 52-60) called by createIntegration for
\* endpoint e (line 349), at the start of the call or after the 2s
\* cool-down (lines 355-356).
Submit(e) ==
    /\ epPc[e] \in {"start", "sleep"}
    /\ epPc[e] = "sleep" => NoMicrotask
    /\ nextOp <= MaxOps
    /\ owner' = [owner EXCEPT ![nextOp] = e]
    /\ nextOp' = nextOp + 1
    /\ epPc' = [epPc EXCEPT ![e] = "putIntegration"]
    /\ IF NoTimeout(timeout)
       THEN processNextQueueElement(Append(requestQueue, nextOp),
                                    [opState EXCEPT ![nextOp] = "queued"])
       ELSE /\ requestQueue' = Append(requestQueue, nextOp)
            /\ opState' = [opState EXCEPT ![nextOp] = "queued"]
            /\ UNCHANGED <<concurrency, timeout, timerLeft, sinceDispatch, lastGap>>
    /\ UNCHANGED <<hist, delivered, decs, isLambda>>
    /\ UNCHANGED outsideScheduler

\* The timer set on line 49 fires: processNextQueueElement runs again.
Tick ==
    /\ timeout = "set"
    /\ timerLeft = 0
    /\ NoMicrotask
    /\ processNextQueueElement(requestQueue, opState)
    /\ UNCHANGED <<hist, delivered, owner, nextOp, decs, callerVars>>
    /\ UNCHANGED outsideScheduler

\* createIntegration's continuation once its putIntegration has settled
\* (lines 348-378): a conflict leads to the cool-down and a new call, any
\* other error is thrown, a success leads to lambda.addPermission for a
\* function-backed endpoint.
AfterPutIntegration(e, v) ==
    IF v.verdict = "resolve"
    THEN IF isLambda[e] THEN "addPermission" ELSE "done"
    ELSE IF v.value = "ConflictException" THEN "sleep" ELSE "failed"

\* The remote call of the running attempt of operation o answers with out.
\* pRetry (lines 5-23) then starts the backoff before another attempt, or
\* settles; on settling, line 54's then(resolve, reject) hands the result
\* to the submitter, whose continuation runs before the decrement of
\* lines 44-46.
Respond(o, out) ==
    /\ opState[o] = "calling"
    /\ NoMicrotask
    /\ hist' = [hist EXCEPT ![o] = Append(@, out)]
    /\ LET v == retry(Len(hist'[o]), Attempt(out))
       IN  IF v.verdict = "retry"
           THEN /\ opState' = [opState EXCEPT ![o] = "backoff"]
                /\ UNCHANGED <<delivered, epPc>>
           ELSE /\ opState' = [opState EXCEPT ![o] = "settled"]
                /\ delivered' = [delivered EXCEPT ![o] = v]
                /\ epPc' = [epPc EXCEPT ![owner[o]] = AfterPutIntegration(owner[o], v)]
    /\ UNCHANGED <<requestQueue, concurrency, timeout, timerLeft, owner, nextOp,
                   decs, sinceDispatch, lastGap, isLambda>>
    /\ UNCHANGED outsideScheduler

\* pRetry's backoff timer fires: the next attempt starts.
RetryAttempt(o) ==
    /\ opState[o] = "backoff"
    /\ NoMicrotask
    /\ opState' = [opState EXCEPT ![o] = "calling"]
    /\ UNCHANGED <<requestQueue, concurrency, timeout, timerLeft, hist, delivered,
                   owner, nextOp, decs, sinceDispatch, lastGap, callerVars>>
    /\ UNCHANGED outsideScheduler

\* The reaction of lines 44-46 to the settled queue element.
Decrement(o) ==
    /\ opState[o] = "settled"
    /\ opState' = [opState EXCEPT ![o] = "done"]
    /\ IF NextFulfils(delivered[o].verdict)
       THEN /\ concurrency' = concurrency - 1
            /\ decs' = [decs EXCEPT ![o] = @ + 1]
       ELSE UNCHANGED <<concurrency, decs>>
    \* the operation is over: its attempts are no longer kept
    /\ hist' = [hist EXCEPT ![o] = <<>>]
    /\ UNCHANGED <<requestQueue, timeout, timerLeft, delivered, owner, nextOp,
                   sinceDispatch, lastGap, callerVars>>
    /\ UNCHANGED outsideScheduler

\* lambda.addPermission(...).promise() of lines 371-377 answers.
AddPermissionDone(e, out) ==
    /\ epPc[e] = "addPermission"
    /\ NoMicrotask
    /\ epPc' = [epPc EXCEPT ![e] =
                   IF out \in {"ok", "ResourceConflictException"} THEN "done" ELSE "failed"]
    /\ UNCHANGED <<schedVars, isLambda>>
    /\ UNCHANGED outsideScheduler

\* Time passes. A timer that is due may still fire late.
Advance ==
    /\ NoMicrotask
    /\ timerLeft' = Max(0, timerLeft - TimeStep)
    /\ sinceDispatch' = IF sinceDispatch = -1 THEN -1
                        ELSE Min(sinceDispatch + TimeStep, MIN_DELAY)
    /\ <<timerLeft', sinceDispatch'>> # <<timerLeft, sinceDispatch>>
    /\ UNCHANGED <<requestQueue, concurrency, timeout, opState, hist, delivered,
                   owner, nextOp, decs, lastGap, callerVars>>
    /\ UNCHANGED outsideScheduler

SchedulerInit ==
    /\ requestQueue = <<>>
    /\ concurrency = 0
    /\ timeout = "null"
    /\ timerLeft = 0
    /\ opState = [o \in Ops |-> "new"]
    /\ hist = [o \in Ops |-> <<>>]
    /\ delivered = [o \in Ops |-> [verdict |-> "none", value |-> "none"]]
    /\ owner = [o \in Ops |-> 0]
    /\ nextOp = 1
    /\ decs = [o \in Ops |-> 0]
    /\ sinceDispatch = -1
    /\ lastGap = -1
    /\ isLambda \in [Callers -> BOOLEAN]
    /\ epPc = [e \in Callers |-> "start"]

\* validateEndpointObject is not running.
NormIdle ==
    /\ nPc = "idle"
    /\ nEndpoint = Undefined
    /\ nFirst = Undefined
    /\ nSecond = Undefined

\* The remote API holds the root node only. A node's methods map each bound
\* HTTP method to the id of its authorizer (0: authorizationType NONE).
NoMethods == [m \in {} |-> 0]
Root == [id |-> 1, path |-> <<"/">>, parentId |-> 0, methods |-> NoMethods]
RemoteIdle ==
    /\ resources = {Root}
    /\ nextId = 2

\* validateEndpoint is not running.
ValidateIdle ==
    /\ vPc = "idle"
    /\ vEndpoint = Undefined
    /\ vState = Undefined
    /\ vValidated = Undefined
    /\ vResourceId = 0
    /\ vResponse = "none"
    /\ vResult = Undefined

\* createPaths is not running.
PathsIdle ==
    /\ cpPc = "idle"
    /\ cpEndpoints = <<>>
    /\ cpIdx = 0
    /\ cpStack = <<>>
    /\ cpExisting = 0
    /\ cpCreates = 0

\* removeOutdatedEndpoints is not running.
GcIdle ==
    /\ authorizers = {}
    /\ gcPc = "idle"
    /\ gcEndpoints = <<>>
    /\ gcState = <<>>
    /\ gcQueue = <<>>
    /\ gcRejected = FALSE
    /\ gcLog = <<>>

\* createAuthorizers is not running.
AuthIdle ==
    /\ caPc = "idle"
    /\ caEndpoints = <<>>
    /\ caIdx = 0
    /\ caCreated = 0
    /\ caLog = <<>>

\* createMethods is not running.
MethodsIdle ==
    /\ cmPc = "idle"
    /\ cmEndpoints = <<>>
    /\ cmQueue = <<>>
    /\ cmStatus = <<>>
    /\ cmCalls = <<>>

Init ==
    SchedulerInit /\ NormIdle /\ RemoteIdle /\ ValidateIdle /\ PathsIdle /\ GcIdle
        /\ AuthIdle /\ MethodsIdle

Next ==
    \/ \E e \in Callers : Submit(e)
    \/ Tick
    \/ \E o \in Ops, out \in Outcomes : Respond(o, out)
    \/ \E o \in Ops : RetryAttempt(o)
    \/ \E o \in Ops : Decrement(o)
    \/ \E e \in Callers, out \in {"ok", "ResourceConflictException", "InternalFailure"} :
          AddPermissionDone(e, out)
    \/ Advance

Spec == Init /\ [][Next]_vars

\* ------------------------------------------------------------------------
\* Scheduler and retry properties
\* ------------------------------------------------------------------------

\* Operations that have been dispatched and have not settled yet.
InFlight == {o \in Ops : opState[o] \in {"calling", "backoff"}}

\* Operations that have settled and whose decrement reaction is still queued.
AwaitingDecrement == {o \in Ops : opState[o] = "settled"}

\* C1: in every reachable state the number of dispatched, unsettled
\* operations is between 0 and MAX_CONCURRENCY, the counter equals that
\* number plus the settled operations whose decrement is still queued, and
\* every operation that is over, resolved or rejected, has decremented the
\* counter exactly once (and no other operation has decremented it).
C1_InFlightWithinCeiling ==
    /\ Cardinality(InFlight) <= MAX_CONCURRENCY
    /\ concurrency \in 0..MAX_CONCURRENCY
    /\ concurrency = Cardinality(InFlight) + Cardinality(AwaitingDecrement)
    /\ \A o \in Ops : decs[o] = IF opState[o] = "done" THEN 1 ELSE 0

\* C1 witness: a rejected operation is over and has decremented once, while
\* another operation is in flight.
C1_Witness ==
    \E o1, o2 \in Ops :
        /\ opState[o1] = "done" /\ delivered[o1].verdict = "reject" /\ decs[o1] = 1
        /\ opState[o2] = "calling" /\ concurrency = 1

\* C2: whenever two dispatch starts have happened, the time between the
\* last two is at least MIN_DELAY.
C2_DispatchesSpaced == lastGap # -1 => lastGap >= MIN_DELAY

\* C2 witness: a second dispatch has just started, by a submission made
\* while the scheduler was idle (no timer pending before it), the earlier
\* operation being over.
C2_Witness ==
    /\ lastGap # -1
    /\ sinceDispatch = 0
    /\ requestQueue = <<>>
    /\ \E o \in Ops : opState[o] = "done"

\* All attempts of o so far failed with the rate-exceeded classification.
AllRateLimited(o) ==
    \A i \in 1..Len(hist[o]) : hist[o][i] = "TooManyRequestsException"

\* C3 as stated: no operation is invoked more than 5 times.
C3_AtMostFiveCalls == \A o \in Ops : Len(hist[o]) <= 5

\* C3 amended: no operation is invoked more than retries + 1 = 6 times, and
\* an operation whose attempts all failed with rate-exceeded settles only
\* after the sixth, rejecting the submitter with that rate-limit error.
C3_AtMostRetriesPlusOneCalls ==
    \A o \in Ops :
        /\ Len(hist[o]) <= retries + 1
        /\ (opState[o] = "settled" /\ AllRateLimited(o)) =>
              /\ Len(hist[o]) = retries + 1
              /\ delivered[o] = [verdict |-> "reject", value |-> "TooManyRequestsException"]

\* C3 witness: an operation has been rejected after six rate-limited attempts.
C3_Witness ==
    \E o \in Ops :
        /\ opState[o] = "settled"
        /\ Len(hist[o]) = retries + 1
        /\ AllRateLimited(o)
        /\ delivered[o].verdict = "reject"

\* C4: an attempt is followed by another attempt only if it failed with
\* rate-exceeded; an operation one of whose attempts failed with another
\* error has settled with that attempt as its last, rejecting the submitter
\* with that same error; an operation that failed four times with
\* rate-exceeded and then succeeded has resolved the submitter with the value.
C4_RetryOnlyRateLimited ==
    \A o \in Ops :
        /\ \A i \in 1..Len(hist[o]) :
              /\ i < Len(hist[o]) => hist[o][i] = "TooManyRequestsException"
              /\ hist[o][i] \notin {"ok", "TooManyRequestsException"} =>
                    /\ i = Len(hist[o])
                    /\ opState[o] = "settled"
                    /\ delivered[o] = [verdict |-> "reject", value |-> hist[o][i]]
        /\ (Len(hist[o]) = 5 /\ hist[o][5] = "ok") =>
              /\ opState[o] = "settled"
              /\ delivered[o] = [verdict |-> "resolve", value |-> "ok"]

\* C4 witness: one operation was rejected with a non-rate error after a
\* single attempt, and another has just succeeded on its fifth attempt after
\* four rate-limited ones.
C4_Witness ==
    \E o1, o2 \in Ops :
        /\ opState[o1] = "done"
        /\ delivered[o1] = [verdict |-> "reject", value |-> "InternalFailure"]
        /\ opState[o2] = "settled"
        /\ Len(hist[o2]) = 5 /\ hist[o2][5] = "ok"
        /\ delivered[o2].verdict = "resolve"

\* Remote calls in flight: the running attempts of dispatched operations and
\* the lambda.addPermission calls made by createIntegration.
RemoteCallsInFlight ==
    Cardinality({o \in Ops : opState[o] = "calling"})
        + Cardinality({e \in Callers : epPc[e] = "addPermission"})

\* C5: at no instant are more than MAX_CONCURRENCY remote calls in flight,
\* the permission grants of createIntegration included.
C5_AllRemoteCallsThrottled == RemoteCallsInFlight <= MAX_CONCURRENCY

\* The scheduler with the event loop running: a timer that is due fires, time
\* passes, a pending promise reaction runs, pRetry's backoff ends, and every
\* remote call made is eventually answered.
Fairness ==
    /\ WF_vars(Tick)
    /\ WF_vars(Advance)
    /\ \A o \in Ops :
          /\ WF_vars(\E out \in Outcomes : Respond(o, out))
          /\ WF_vars(RetryAttempt(o))
          /\ WF_vars(Decrement(o))

\* createIntegrations for endpoints backed by a proxy URI: every remote
\* call goes through the scheduler.
InitLive == Init /\ isLambda = [e \in Callers |-> FALSE]

LiveNext ==
    \/ \E e \in Callers : Submit(e)
    \/ Tick
    \/ \E o \in Ops, out \in Outcomes : Respond(o, out)
    \/ \E o \in Ops : RetryAttempt(o)
    \/ \E o \in Ops : Decrement(o)
    \/ Advance

SpecLive == InitLive /\ [][LiveNext]_vars /\ Fairness

\* C16: whenever the queue is not empty a dispatch timer is pending; the
\* timer handle is cleared only by a run of processNextQueueElement that
\* finds the queue empty; a submission made without a pending timer sets
\* one or leaves the queue empty; and every submitted operation is
\* eventually dispatched and settles its submitter's promise with a result
\* or an error.
C16_NoLostWakeup ==
    /\ [](Len(requestQueue) > 0 => timeout = "set")
    /\ [][(timeout = "set" /\ timeout' = "null") =>
              (Len(requestQueue) = 0 /\ Len(requestQueue') = 0 /\ timerLeft = 0)]_vars
    /\ [][(timeout = "null" /\ nextOp' # nextOp) => timeout' = "set"]_vars
    /\ \A o \in Ops :
          (opState[o] \in {"queued", "calling", "backoff"}) ~>
              (hist[o] # <<>> /\ delivered[o].verdict \in {"resolve", "reject"})

\* C16 witness: two operations have been submitted, dispatched one after
\* the other and settled, and the loop has gone idle.
C16_Witness ==
    /\ nextOp > 2
    /\ delivered[1].verdict \in {"resolve", "reject"}
    /\ delivered[2].verdict \in {"resolve", "reject"}
    /\ timeout = "null"
    /\ concurrency = 0
    /\ lastGap # -1

\* ------------------------------------------------------------------------
\* validateEndpointObject (src/utils.js 145-190)
\* ------------------------------------------------------------------------
LowerCase == <<"a", "b", "c", "d", "e", "f", "g", "h", "i", "j", "k", "l", "m",
               "n", "o", "p", "q", "r", "s", "t", "u", "v", "w", "x", "y", "z">>
UpperCase == <<"A", "B", "C", "D", "E", "F", "G", "H", "I", "J", "K", "L", "M",
               "N", "O", "P", "Q", "R", "S", "T", "U", "V", "W", "X", "Y", "Z">>

\* String.prototype.toUpperCase
toUpperCase(s) ==
    [i \in 1..Len(s) |->
        IF \E k \in 1..Len(LowerCase) : LowerCase[k] = s[i]
        THEN UpperCase[CHOOSE k \in 1..Len(LowerCase) : LowerCase[k] = s[i]]
        ELSE s[i]]

\* s.startsWith('/') and s.endsWith('/')
startsWithSlash(s) == Len(s) >= 1 /\ s[1] = "/"
endsWithSlash(s) == Len(s) >= 1 /\ s[Len(s)] = "/"

\* Line 146
validMethods ==
    { <<"G", "E", "T">>, <<"P", "O", "S", "T">>, <<"P", "U", "T">>,
      <<"D", "E", "L", "E", "T", "E">>, <<"P", "A", "T", "C", "H">>,
      <<"H", "E", "A", "D">>, <<"O", "P", "T", "I", "O", "N", "S">>,
      <<"A", "N", "Y">> }

\* https://${apiId}.execute-api.${region}.amazonaws.com/${stage}
urlBase == <<"https://apiId.execute-api.region.amazonaws.com/stage">>

\* Lines 178-180: if (path.endsWith('/')) path = path.substring(0, length - 1)
stripTrailingSlash(path) ==
    IF endsWithSlash(path) THEN SubSeq(path, 1, Len(path) - 1) ELSE path

\* Lines 174-181: the normalisation of a path string.
normalizePath(path) ==
    IF path # <<"/">>
    THEN stripTrailingSlash(IF ~startsWithSlash(path) THEN <<"/">> \o path ELSE path)
    ELSE path

Failure(message) == [t |-> "error", message |-> message]

\* validateEndpointObject: the validated endpoint, or the Error thrown.
validateEndpointObject(endpoint) ==
    IF endpoint.t # "object" THEN Failure("endpoint must be an object")
    ELSE IF Falsy(endpoint.method) THEN Failure("missing method property")
    ELSE IF endpoint.path = Str(<<>>) THEN Failure("endpoint path cannot be an empty string")
    ELSE IF Falsy(endpoint.path) THEN Failure("missing path property")
    ELSE IF endpoint.method.t # "string" \/ endpoint.path.t # "string"
         THEN Failure("invalid endpoint")
    ELSE IF toUpperCase(endpoint.method.s) \notin validMethods
         THEN Failure("invalid method")
    ELSE [t |-> "object",
          url |-> Str(urlBase \o normalizePath(endpoint.path.s)),
          path |-> Str(normalizePath(endpoint.path.s)),
          method |-> Str(toUpperCase(endpoint.method.s))]

\* The declarations the model hands to validateEndpointObject.
PathAlphabet == {"/", "a"}
PathStrings == UNION {[1..k -> PathAlphabet] : k \in 1..MaxPathLen}
DeclaredPaths == {Undefined, Num(0), Num(7), Str(<<>>)} \cup {Str(p) : p \in PathStrings}
DeclaredMethods ==
    {Undefined, Num(7), Str(<<"g", "e", "t">>), Str(<<"P", "o", "s", "t">>),
     Str(<<"A", "N", "Y">>), Str(<<"f", "o", "o">>)}
Declarations ==
    {Num(7)} \cup {[t |-> "object", method |-> m, path |-> q] :
                      m \in DeclaredMethods, q \in DeclaredPaths}

NormInit ==
    /\ nPc = "input"
    /\ nEndpoint \in Declarations
    /\ nFirst = Undefined
    /\ nSecond = Undefined

\* What validateEndpointObject's steps leave alone.
outsideNorm == <<schedVars, callerVars, remoteVars, validateVars, pathVars, gcVars,
                 authVars, methodVars>>

\* The scheduler is not running.
SchedulerIdle ==
    /\ requestQueue = <<>>
    /\ concurrency = 0
    /\ timeout = "null"
    /\ timerLeft = 0
    /\ opState = [o \in Ops |-> "new"]
    /\ hist = [o \in Ops |-> <<>>]
    /\ delivered = [o \in Ops |-> [verdict |-> "none", value |-> "none"]]
    /\ owner = [o \in Ops |-> 0]
    /\ nextOp = 1
    /\ decs = [o \in Ops |-> 0]
    /\ sinceDispatch = -1
    /\ lastGap = -1
    /\ isLambda = [e \in Callers |-> FALSE]
    /\ epPc = [e \in Callers |-> "idle"]

\* validateEndpointObject({ endpoint: nEndpoint, ... })
ValidateOnce ==
    /\ nPc = "input"
    /\ nFirst' = validateEndpointObject(nEndpoint)
    /\ nPc' = "once"
    /\ UNCHANGED <<nEndpoint, nSecond>>
    /\ UNCHANGED outsideNorm

\* validateEndpointObject on the endpoint the first call returned.
ValidateAgain ==
    /\ nPc = "once"
    /\ nFirst.t = "object"
    /\ nSecond' = validateEndpointObject(nFirst)
    /\ nPc' = "twice"
    /\ UNCHANGED <<nEndpoint, nFirst>>
    /\ UNCHANGED outsideNorm

NormNext == ValidateOnce \/ ValidateAgain

InitNorm ==
    SchedulerIdle /\ NormInit /\ RemoteIdle /\ ValidateIdle /\ PathsIdle /\ GcIdle
        /\ AuthIdle /\ MethodsIdle

SpecNorm == InitNorm /\ [][NormNext]_vars

\* C7: for every declaration validateEndpointObject accepts, validating the
\* result again gives the same path and method, and the path starts with
\* '/' and does not end with '/' unless it is exactly '/'.
C7_NormalizationIdempotent ==
    nPc = "twice" =>
        /\ nSecond.t = "object"
        /\ nSecond.path = nFirst.path
        /\ nSecond.method = nFirst.method
        /\ startsWithSlash(nFirst.path.s)
        /\ endsWithSlash(nFirst.path.s) => nFirst.path.s = <<"/">>

\* ------------------------------------------------------------------------
\* validateEndpoint (src/utils.js 89-143, 192-204)
\* ------------------------------------------------------------------------
GET == <<"G", "E", "T">>
POST == <<"P", "O", "S", "T">>

\* Lines 105-109 never finding the path.
getPathIdNeverFinds(items, path) == 0

\* getPathId (lines 96-109) on the listing `items` with an endpoint: the id
\* of the node whose path is the endpoint's, or null (0).
getPathId(items, path) ==
    IF \E n \in items : n.path = path
    THEN (CHOOSE n \in items : n.path = path).id
    ELSE 0

\* getPathId (lines 98-103) without an endpoint: the root's id.
getRootId(items) == (CHOOSE n \in items : n.path = <<"/">>).id

\* What apig.getMethod answers for (resourceId, httpMethod): the method, a
\* NotFoundException, or the error the call failed with.
getMethodResponses(items, resourceId, method) ==
    { IF \E n \in items : n.id = resourceId /\ method \in DOMAIN n.methods
      THEN "ok" ELSE "NotFoundException" }
        \cup {"TooManyRequestsException", "InternalFailure"}

\* endpointExists (lines 125-132) given getMethod's answer: true, false, or
\* undefined when the catch block falls through.
endpointExists(response) ==
    IF response = "ok" THEN "true"
    ELSE IF response = "NotFoundException" THEN "false"
    ELSE "undefined"

\* myEndpoint (lines 135-143); state is state.endpoints, a list or Undefined.
myEndpoint(state, endpoint) ==
    /\ state # Undefined
    /\ \E i \in 1..Len(state.items) :
          /\ state.items[i].method = endpoint.method.s
          /\ state.items[i].path = endpoint.path.s

\* validateEndpoint lines 195-203: the conflict Error, or the validated endpoint.
validateOutcome(exists, state, validated) ==
    IF exists = "true" /\ ~myEndpoint(state, validated)
    THEN Failure("endpoint already exists in provider")
    ELSE validated

\* The remote trees validateEndpoint is run against: the root, /a and /a/a,
\* each with any of GET and POST bound.
MethodSets == {[m \in ms |-> 0] : ms \in SUBSET {GET, POST}}
ValidateTrees ==
    { {[Root EXCEPT !.methods = m1]} : m1 \in MethodSets }
    \cup { {[Root EXCEPT !.methods = m1],
            [id |-> 2, path |-> <<"/", "a">>, parentId |-> 1, methods |-> m2]} :
           m1 \in {NoMethods}, m2 \in MethodSets }
    \cup { {Root,
            [id |-> 2, path |-> <<"/", "a">>, parentId |-> 1, methods |-> m2],
            [id |-> 3, path |-> <<"/", "a", "/", "a">>, parentId |-> 2, methods |-> m3]} :
           m2 \in {NoMethods, [m \in {GET} |-> 0]}, m3 \in MethodSets }

\* The prior states: none recorded, or a list of endpoints of an earlier run.
PriorEndpoints ==
    { [method |-> m, path |-> q] :
        m \in {GET, POST}, q \in {<<"/">>, <<"/", "a">>, <<"/", "a", "/", "a">>} }
List(items) == [t |-> "array", items |-> items]
PriorStates == {Undefined, List(<<>>)} \cup {List(<<e>>) : e \in PriorEndpoints}

ValidateInit ==
    /\ resources \in ValidateTrees
    /\ nextId = 4
    /\ vPc = "start"
    /\ vEndpoint \in {[t |-> "object", method |-> m, path |-> Str(q)] :
                        m \in {Str(<<"g", "e", "t">>), Str(POST), Str(<<"f", "o", "o">>)},
                        q \in PathStrings}
    /\ vState \in PriorStates
    /\ vValidated = Undefined
    /\ vResourceId = 0
    /\ vResponse = "none"
    /\ vResult = Undefined

\* What validateEndpoint's steps leave alone.
outsideValidate == <<schedVars, callerVars, normVars, remoteVars, pathVars, gcVars,
                     authVars, methodVars>>

\* Line 193: validateEndpointObject; its Error is validateEndpoint's.
ValidateObject ==
    /\ vPc = "start"
    /\ LET v == validateEndpointObject(vEndpoint)
       IN  IF v.t = "error"
           THEN /\ vResult' = v
                /\ vPc' = "done"
                /\ UNCHANGED vValidated
           ELSE /\ vValidated' = v
                /\ vPc' = "getPathId"
                /\ UNCHANGED vResult
    /\ UNCHANGED <<vEndpoint, vState, vResourceId, vResponse>>
    /\ UNCHANGED outsideValidate

\* Lines 113-117: getPathId on the current listing; without a node,
\* endpointExists is false and validateEndpoint returns the endpoint.
ValidateGetPathId ==
    /\ vPc = "getPathId"
    /\ vResourceId' = getPathId(resources, vValidated.path.s)
    /\ IF vResourceId' = 0
       THEN /\ vResult' = validateOutcome("false", vState, vValidated)
            /\ vPc' = "done"
       ELSE /\ vPc' = "getMethod"
            /\ UNCHANGED vResult
    /\ UNCHANGED <<vEndpoint, vState, vValidated, vResponse>>
    /\ UNCHANGED outsideValidate

\* Lines 125-132 and 195-203: apig.getMethod answers, endpointExists and
\* validateEndpoint conclude.
ValidateGetMethod(response) ==
    /\ vPc = "getMethod"
    /\ response \in getMethodResponses(resources, vResourceId, vValidated.method.s)
    /\ vResponse' = response
    /\ vResult' = validateOutcome(endpointExists(response), vState, vValidated)
    /\ vPc' = "done"
    /\ UNCHANGED <<vEndpoint, vState, vValidated, vResourceId>>
    /\ UNCHANGED outsideValidate

ValidateNext ==
    \/ ValidateObject
    \/ ValidateGetPathId
    \/ \E response \in {"ok", "NotFoundException", "TooManyRequestsException",
                        "InternalFailure"} : ValidateGetMethod(response)

InitValidate ==
    SchedulerIdle /\ NormIdle /\ ValidateInit /\ PathsIdle /\ GcIdle
        /\ AuthIdle /\ MethodsIdle

SpecValidate == InitValidate /\ [][ValidateNext]_vars

\* The remote API has the validated endpoint's method bound at its path.
RemoteMethodBound ==
    \E n \in resources :
        n.path = vValidated.path.s /\ vValidated.method.s \in DOMAIN n.methods

\* C6: once validateEndpoint is over for a well-formed endpoint, it has
\* thrown the conflict Error if the remote API has the method bound at the
\* normalized (method, path) and the prior state has no endpoint with that
\* (method, path); it has returned the validated endpoint if the method is
\* bound and the prior state has it, and if the method is not bound.
C6_ConflictIffForeignMethod ==
    (vPc = "done" /\ vValidated # Undefined) =>
        /\ (RemoteMethodBound /\ ~myEndpoint(vState, vValidated)) =>
              vResult = Failure("endpoint already exists in provider")
        /\ (RemoteMethodBound /\ myEndpoint(vState, vValidated)) => vResult = vValidated
        /\ ~RemoteMethodBound => vResult = vValidated

\* The same three cases for the runs in which apig.getMethod, if called,
\* answered with the method or with NotFoundException.
ValidateAnsweredLookups ==
    (vPc = "done" /\ vValidated # Undefined
        /\ vResponse \in {"none", "ok", "NotFoundException"}) =>
        /\ (RemoteMethodBound /\ ~myEndpoint(vState, vValidated)) =>
              vResult = Failure("endpoint already exists in provider")
        /\ (RemoteMethodBound /\ myEndpoint(vState, vValidated)) => vResult = vValidated
        /\ ~RemoteMethodBound => vResult = vValidated

\* C18: once validateEndpoint is over after apig.getMethod failed with an
\* error other than NotFoundException, it has thrown an Error and has not
\* returned the validated endpoint.
C18_LookupFailureSurfaced ==
    (vPc = "done" /\ vResponse \in {"TooManyRequestsException", "InternalFailure"}) =>
        vResult.t = "error" /\ vResult # vValidated

\* ------------------------------------------------------------------------
\* createPath and createPaths (src/utils.js 216-254)
\* ------------------------------------------------------------------------

\* String.prototype.split('/'): the pieces of s between the slashes.
RECURSIVE splitSlash(_)
splitSlash(s) ==
    IF \A i \in 1..Len(s) : s[i] # "/"
    THEN <<s>>
    ELSE LET k == CHOOSE i \in 1..Len(s) :
                      s[i] = "/" /\ \A j \in 1..(i - 1) : s[j] # "/"
         IN  <<SubSeq(s, 1, k - 1)>> \o splitSlash(SubSeq(s, k + 1, Len(s)))

\* Array.prototype.join('/')
RECURSIVE joinSlash(_)
joinSlash(parts) ==
    IF Len(parts) = 0 THEN <<>>
    ELSE IF Len(parts) = 1 THEN parts[1]
    ELSE parts[1] \o <<"/">> \o joinSlash(Tail(parts))

\* Lines 223-224: pathParts.pop()
pathPartOf(path) == splitSlash(path)[Len(splitSlash(path))]

\* Line 225: the parent endpoint's path, pathParts.join('/') after the pop.
parentPathOf(path) ==
    joinSlash(SubSeq(splitSlash(path), 1, Len(splitSlash(path)) - 1))

\* The path the remote gives the child pathPart of the node parent.
childPath(parent, pathPart) ==
    IF parent.path = <<"/">> THEN <<"/">> \o pathPart
    ELSE parent.path \o <<"/">> \o pathPart

\* apig.createResource({ pathPart, parentId }) as the remote answers it: the
\* new node, or the error code.
createResourceResponse(items, id, parentId, pathPart) ==
    IF ~\E n \in items : n.id = parentId THEN [code |-> "NotFoundException"]
    ELSE IF pathPart = <<>> \/ \E i \in 1..Len(pathPart) : pathPart[i] = "/"
         THEN [code |-> "BadRequestException"]
    ELSE LET parent == CHOOSE n \in items : n.id = parentId
         IN  IF \E n \in items : n.path = childPath(parent, pathPart)
             THEN [code |-> "ConflictException"]
             ELSE [code |-> "ok",
                   node |-> [id |-> id, path |-> childPath(parent, pathPart),
                             parentId |-> parentId, methods |-> NoMethods]]

\* A pending createPath call.
Frame(path) == [path |-> path, at |-> "getPathId", parentId |-> 0]

\* The innermost pending createPath call.
Top == cpStack[Len(cpStack)]

\* createPath returns id (lines 220 and 242): to the createPath call that
\* awaits it as its parentId (line 231), or to createPaths (lines 249-250),
\* which stores it and goes on to the next endpoint.
ReturnId(id) ==
    IF Len(cpStack) > 1
    THEN /\ cpStack' = [SubSeq(cpStack, 1, Len(cpStack) - 1) EXCEPT
                           ![Len(cpStack) - 1] =
                               [@ EXCEPT !.parentId = id, !.at = "createResource"]]
         /\ UNCHANGED <<cpPc, cpEndpoints, cpIdx>>
    ELSE /\ cpEndpoints' = [cpEndpoints EXCEPT ![cpIdx].id = id]
         /\ cpIdx' = cpIdx + 1
         /\ cpStack' = <<>>
         /\ cpPc' = IF cpIdx < Len(cpEndpoints) THEN "call" ELSE "done"

\* What createPaths' steps leave alone.
outsidePaths == <<schedVars, callerVars, normVars, validateVars, gcVars,
                  authVars, methodVars>>

\* createPaths calls createPath for the endpoint it is at (line 249).
CreatePathCall ==
    /\ cpPc = "call"
    /\ cpExisting' = IF \E n \in resources : n.path = cpEndpoints[cpIdx].path
                     THEN (CHOOSE n \in resources : n.path = cpEndpoints[cpIdx].path).id
                     ELSE 0
    /\ cpCreates' = 0
    /\ cpStack' = <<Frame(cpEndpoints[cpIdx].path)>>
    /\ cpPc' = "run"
    /\ UNCHANGED <<cpEndpoints, cpIdx, remoteVars>>
    /\ UNCHANGED outsidePaths

\* Lines 217-232: getPathId on the current listing; the node's id is
\* returned if there is one; otherwise the parent is the root (its id is
\* fetched next) or is resolved by a nested createPath call.
CreatePathGetPathId ==
    /\ cpPc = "run"
    /\ Top.at = "getPathId"
    /\ LET id == getPathId(resources, Top.path)
       IN  IF id # 0
           THEN ReturnId(id)
           ELSE /\ IF parentPathOf(Top.path) = <<>>
                   THEN cpStack' = [cpStack EXCEPT ![Len(cpStack)].at = "getRootId"]
                   ELSE cpStack' = Append([cpStack EXCEPT ![Len(cpStack)].at = "awaitParent"],
                                          Frame(parentPathOf(Top.path)))
                /\ UNCHANGED <<cpPc, cpEndpoints, cpIdx>>
    /\ UNCHANGED <<cpExisting, cpCreates, remoteVars>>
    /\ UNCHANGED outsidePaths

\* Line 229: parentId = await getPathId({ apig, apiId })
CreatePathGetRootId ==
    /\ cpPc = "run"
    /\ Top.at = "getRootId"
    /\ cpStack' = [cpStack EXCEPT ![Len(cpStack)] =
                      [@ EXCEPT !.parentId = getRootId(resources), !.at = "createResource"]]
    /\ UNCHANGED <<cpPc, cpEndpoints, cpIdx, cpExisting, cpCreates, remoteVars>>
    /\ UNCHANGED outsidePaths

\* Lines 234-242: apig.createResource; its error is createPath's and
\* createPaths' error.
CreatePathCreateResource ==
    /\ cpPc = "run"
    /\ Top.at = "createResource"
    /\ cpCreates' = cpCreates + 1
    /\ LET r == createResourceResponse(resources, nextId, Top.parentId, pathPartOf(Top.path))
       IN  IF r.code = "ok"
           THEN /\ resources' = resources \cup {r.node}
                /\ nextId' = nextId + 1
                /\ ReturnId(r.node.id)
           ELSE /\ cpPc' = "failed"
                /\ UNCHANGED <<cpEndpoints, cpIdx, cpStack, remoteVars>>
    /\ UNCHANGED cpExisting
    /\ UNCHANGED outsidePaths

\* The endpoint paths handed to createPaths: declared paths as
\* validateEndpointObject leaves them.
CreatePathsPaths ==
    { normalizePath(q) :
        q \in { <<"/">>, <<"a">>, <<"b", "/">>, <<"a", "/", "b">>, <<"/", "a", "/", "c">>,
                <<"a", "/", "/">>, <<"/", "/", "/">> } }

\* The remote trees createPaths starts from.
NodeA == [id |-> 2, path |-> <<"/", "a">>, parentId |-> 1, methods |-> NoMethods]
NodeAB == [id |-> 3, path |-> <<"/", "a", "/", "b">>, parentId |-> 2, methods |-> NoMethods]
CreatePathsTrees == { {Root}, {Root, NodeA}, {Root, NodeA, NodeAB} }

PathsInit ==
    /\ resources \in CreatePathsTrees
    /\ nextId = 4
    /\ cpPc = "call"
    /\ cpEndpoints \in UNION { [1..k -> {[path |-> q, id |-> 0] : q \in CreatePathsPaths}] :
                                 k \in 1..MaxEndpoints }
    /\ cpIdx = 1
    /\ cpStack = <<>>
    /\ cpExisting = 0
    /\ cpCreates = 0

PathsNext ==
    \/ CreatePathCall
    \/ CreatePathGetPathId
    \/ CreatePathGetRootId
    \/ CreatePathCreateResource

InitPaths ==
    SchedulerIdle /\ NormIdle /\ ValidateIdle /\ PathsInit /\ GcIdle
        /\ AuthIdle /\ MethodsIdle

SpecPaths == InitPaths /\ [][PathsNext]_vars

\* Another consumer of the same API (or another run) creates the node of a
\* pending createPath call after that call has taken its listing and before
\* its own apig.createResource is made.
OtherCreatorCreates ==
    /\ cpPc = "run"
    /\ \E k \in 1..Len(cpStack) :
          /\ cpStack[k].at \in {"getRootId", "awaitParent", "createResource"}
          /\ \E parent \in resources :
                /\ parent.path = (IF parentPathOf(cpStack[k].path) = <<>> THEN <<"/">>
                                  ELSE parentPathOf(cpStack[k].path))
                /\ LET r == createResourceResponse(resources, nextId, parent.id,
                                                   pathPartOf(cpStack[k].path))
                   IN  /\ r.code = "ok"
                       /\ resources' = resources \cup {r.node}
                       /\ nextId' = nextId + 1
    /\ UNCHANGED pathVars
    /\ UNCHANGED outsidePaths

PathsRaceNext ==
    \/ CreatePathCall
    \/ CreatePathGetPathId
    \/ CreatePathGetRootId
    \/ CreatePathCreateResource
    \/ OtherCreatorCreates

\* createPaths run while other consumers create nodes in the same API.
SpecPathsRace == InitPaths /\ [][PathsRaceNext]_vars

\* The node with this id.
nodeOf(id) == CHOOSE n \in resources : n.id = id

\* The ids on the parent chain of the node id, itself included.
RECURSIVE chainOf(_)
chainOf(id) ==
    IF ~\E n \in resources : n.id = id THEN {}
    ELSE {id} \cup chainOf(nodeOf(id).parentId)

\* The paths of the proper ancestors of a path: '/', '/x', '/x/y', ...
ancestorPaths(path) ==
    IF path = <<"/">> THEN {}
    ELSE {<<"/">>} \cup { joinSlash(SubSeq(splitSlash(path), 1, j)) :
                            j \in 2..(Len(splitSlash(path)) - 1) }

\* C8: no two nodes of the remote tree have the same path; while and after
\* createPath resolves a path that a node already had when it was called,
\* no createResource call has been issued, and the id it returned is that
\* node's; every endpoint resolved so far is bound to the node of its path,
\* and each ancestor path of it belongs to exactly one node, which is on
\* the parent chain of the endpoint's node.
C8_PathResolutionIdempotent ==
    /\ \A n1, n2 \in resources : n1.path = n2.path => n1 = n2
    /\ cpExisting # 0 => cpCreates = 0
    /\ (cpPc \in {"call", "done"} /\ cpIdx > 1 /\ cpExisting # 0) =>
          cpEndpoints[cpIdx - 1].id = cpExisting
    /\ \A i \in 1..Len(cpEndpoints) :
          i < cpIdx =>
              /\ \E n \in resources :
                    n.id = cpEndpoints[i].id /\ n.path = cpEndpoints[i].path
              /\ \A q \in ancestorPaths(cpEndpoints[i].path) :
                    /\ Cardinality({n \in resources : n.path = q}) = 1
                    /\ \E n \in resources :
                          n.path = q /\ n.id \in chainOf(cpEndpoints[i].id)

\* C8 witness: createPaths is over for /a/b followed by /a; the second
\* call found the node the first one had created as an ancestor and
\* issued no create call.
C8_Witness ==
    /\ cpPc = "done"
    /\ Len(cpEndpoints) = 2
    /\ cpEndpoints[1].path = <<"/", "a", "/", "b">>
    /\ cpEndpoints[2].path = <<"/", "a">>
    /\ nextId > 4
    /\ cpExisting = cpEndpoints[2].id
    /\ cpCreates = 0
    /\ nodeOf(cpEndpoints[1].id).parentId = cpEndpoints[2].id

\* C15: createPath does not fail because the node it set out to create has
\* been created by someone else in the meantime: when createPaths has
\* failed, the apig.createResource call that failed was not answered with
\* ConflictException.
C15_CreateRaceTolerated ==
    cpPc = "failed" =>
        createResourceResponse(resources, nextId, Top.parentId,
                               pathPartOf(Top.path)).code # "ConflictException"

\* ------------------------------------------------------------------------
\* removeOutdatedEndpoints and what it calls (src/utils.js 403-476, 544-605)
\* ------------------------------------------------------------------------

\* Lines 585-587
endpointInUse(endpoints, stateEndpoint) ==
    \E i \in 1..Len(endpoints) :
        /\ endpoints[i].method = stateEndpoint.method
        /\ endpoints[i].path = stateEndpoint.path

\* Lines 589-591
authorizerInUse(endpoints, stateEndpoint) ==
    \E i \in 1..Len(endpoints) : endpoints[i].authorizerId = stateEndpoint.authorizerId

\* Lines 582-598: the prior endpoints whose (method, path) is not desired.
outdatedEndpoints(endpoints, stateEndpoints) ==
    SelectSeq(stateEndpoints, LAMBDA se : ~endpointInUse(endpoints, se))

\* Lines 582-598: the prior endpoints that are still desired and whose
\* authorizerId no desired endpoint carries.
outdatedAuthorizers(endpoints, stateEndpoints) ==
    SelectSeq(stateEndpoints,
              LAMBDA se : endpointInUse(endpoints, se) /\ ~authorizerInUse(endpoints, se))

\* Line 464 without the test on child resources.
removableIgnoringChildren(items, endpoint) ==
    \E n \in items : n.id = endpoint.id /\ DOMAIN n.methods = {}

\* Line 464 without the test that the listing has the node.
removableUnlisted(items, endpoint) ==
    /\ ~\E n \in items : n.id = endpoint.id /\ DOMAIN n.methods # {}
    /\ ~\E n \in items : n.parentId = endpoint.id

\* Lines 454-464: the listing has the endpoint's node, with no method and no
\* child resource.
removable(items, endpoint) ==
    /\ \E n \in items : n.id = endpoint.id /\ DOMAIN n.methods = {}
    /\ ~\E n \in items : n.parentId = endpoint.id

\* Lines 453-467: the removeResource calls one pass of removeResources makes.
removeResourceCalls(items, endpoints) ==
    SelectSeq(endpoints, LAMBDA e : removable(items, e))

\* Lines 572-574 and 546: the endpoints removeAuthorizer acts on, each
\* starting with its updateMethod call.
updateMethodCalls(endpoints) ==
    LET acting == SelectSeq(endpoints, LAMBDA e : e.authorizerId # 0)
    IN  [i \in 1..Len(acting) |-> [op |-> "updateMethod", endpoint |-> acting[i]]]

\* A remote call as the log keeps it: the node and method it names, whether
\* the remote had what it names, for a deleteResource the methods and child
\* nodes the node had when the call was applied, and for an updateMethod
\* the authorizer the method was bound to when the call was applied.
Call(op, e, found, hadMethods, hadChildren, bound) ==
    [op |-> op, id |-> e.id, method |-> e.method, authorizerId |-> e.authorizerId,
     found |-> found, hadMethods |-> hadMethods, hadChildren |-> hadChildren,
     bound |-> bound]
NoEndpoint == [id |-> 0, method |-> <<>>, authorizerId |-> 0]

\* Where removeOutdatedEndpoints stands once removeMethods is over (line
\* 602), and once removeResources is over (lines 601-602).
afterRemoveMethods ==
    LET q == updateMethodCalls(outdatedAuthorizers(gcEndpoints, gcState))
    IN  IF q # <<>> THEN [pc |-> "removeAuthorizers", queue |-> q]
        ELSE [pc |-> "done", queue |-> <<>>]
afterRemoveResources ==
    LET q == outdatedEndpoints(gcEndpoints, gcState)
    IN  IF q # <<>> THEN [pc |-> "removeMethods", queue |-> q] ELSE afterRemoveMethods

\* What removeOutdatedEndpoints' steps leave alone.
outsideGc == <<schedVars, callerVars, normVars, validateVars, pathVars, nextId,
               authVars, methodVars>>

\* removeResources lines 449-471: the listing is fetched and the pass's
\* removeResource calls are submitted; without any, removeResources returns.
GcGetResources ==
    /\ gcPc = "removeResources"
    /\ gcLog' = Append(gcLog, Call("getResources", NoEndpoint, TRUE, 0, 0, 0))
    /\ LET q == removeResourceCalls(resources, outdatedEndpoints(gcEndpoints, gcState))
       IN  IF q # <<>>
           THEN /\ gcPc' = "deleteResources"
                /\ gcQueue' = q
           ELSE /\ gcPc' = afterRemoveResources.pc
                /\ gcQueue' = afterRemoveResources.queue
    /\ UNCHANGED <<resources, authorizers, gcEndpoints, gcState, gcRejected>>
    /\ UNCHANGED outsideGc

\* removeResource (lines 431-442): apig.deleteResource removes the node and
\* what is under it; NotFoundException is swallowed. After the last call of
\* the pass removeResources calls itself (line 475).
GcDeleteResource ==
    /\ gcPc = "deleteResources"
    /\ LET e == Head(gcQueue)
           found == \E n \in resources : n.id = e.id
       IN  /\ gcLog' = Append(gcLog,
                  Call("deleteResource", e, found,
                       IF found THEN Cardinality(DOMAIN nodeOf(e.id).methods) ELSE 0,
                       Cardinality({n \in resources : n.parentId = e.id}), 0))
           /\ resources' = {n \in resources : e.id \notin chainOf(n.id)}
    /\ gcQueue' = Tail(gcQueue)
    /\ gcPc' = IF gcQueue' = <<>> THEN "removeResources" ELSE "deleteResources"
    /\ UNCHANGED <<authorizers, gcEndpoints, gcState, gcRejected>>
    /\ UNCHANGED outsideGc

\* removeMethod (lines 403-419): apig.deleteMethod; NotFoundException is
\* swallowed.
GcDeleteMethod ==
    /\ gcPc = "removeMethods"
    /\ LET e == Head(gcQueue)
           found == \E n \in resources : n.id = e.id /\ e.method \in DOMAIN n.methods
       IN  /\ gcLog' = Append(gcLog, Call("deleteMethod", e, found, 0, 0, 0))
           /\ resources' =
                 { IF n.id = e.id
                   THEN [n EXCEPT !.methods =
                            [m \in DOMAIN n.methods \ {e.method} |-> n.methods[m]]]
                   ELSE n : n \in resources }
    /\ IF Tail(gcQueue) = <<>>
       THEN /\ gcPc' = afterRemoveMethods.pc
            /\ gcQueue' = afterRemoveMethods.queue
       ELSE /\ gcPc' = "removeMethods"
            /\ gcQueue' = Tail(gcQueue)
    /\ UNCHANGED <<authorizers, gcEndpoints, gcState, gcRejected>>
    /\ UNCHANGED outsideGc

\* Where removeOutdatedEndpoints stands once the calls of removeAuthorizers
\* left are q: over, with the rejection of Promise.all if a call has failed.
afterAuthorizerCall(q, rejected) ==
    IF q # <<>> THEN "removeAuthorizers" ELSE IF rejected THEN "failed" ELSE "done"

\* removeAuthorizer lines 547-560: apig.updateMethod sets the method's
\* authorizationType to NONE; then the deleteAuthorizer call is submitted.
\* Without the method the call fails and removeAuthorizer throws.
GcUpdateMethod ==
    /\ gcPc = "removeAuthorizers"
    /\ Head(gcQueue).op = "updateMethod"
    /\ LET e == Head(gcQueue).endpoint
           found == \E n \in resources : n.id = e.id /\ e.method \in DOMAIN n.methods
       IN  /\ gcLog' = Append(gcLog,
                  Call("updateMethod", e, found, 0, 0,
                       IF found THEN nodeOf(e.id).methods[e.method] ELSE 0))
           /\ resources' =
                 { IF n.id = e.id /\ e.method \in DOMAIN n.methods
                   THEN [n EXCEPT !.methods[e.method] = 0]
                   ELSE n : n \in resources }
           /\ gcQueue' = IF found
                         THEN Append(Tail(gcQueue), [op |-> "deleteAuthorizer", endpoint |-> e])
                         ELSE Tail(gcQueue)
           /\ gcRejected' = (gcRejected \/ ~found)
    /\ gcPc' = afterAuthorizerCall(gcQueue', gcRejected')
    /\ UNCHANGED <<authorizers, gcEndpoints, gcState>>
    /\ UNCHANGED outsideGc

\* removeAuthorizer lines 562-564: apig.deleteAuthorizer; without the
\* authorizer the call fails and removeAuthorizer throws.
GcDeleteAuthorizer ==
    /\ gcPc = "removeAuthorizers"
    /\ Head(gcQueue).op = "deleteAuthorizer"
    /\ LET e == Head(gcQueue).endpoint
           found == \E a \in authorizers : a.id = e.authorizerId
       IN  /\ gcLog' = Append(gcLog, Call("deleteAuthorizer", e, found, 0, 0, 0))
           /\ authorizers' = {a \in authorizers : a.id # e.authorizerId}
           /\ gcRejected' = (gcRejected \/ ~found)
    /\ gcQueue' = Tail(gcQueue)
    /\ gcPc' = afterAuthorizerCall(gcQueue', gcRejected')
    /\ UNCHANGED <<resources, gcEndpoints, gcState>>
    /\ UNCHANGED outsideGc

\* The endpoints of the runs: GET /a and POST /a on node 2, GET /a/b on
\* node 3, each with an authorizer id or none (0).
Slots ==
    << [method |-> GET, path |-> <<"/", "a">>, id |-> 2],
       [method |-> POST, path |-> <<"/", "a">>, id |-> 2],
       [method |-> GET, path |-> <<"/", "a", "/", "b">>, id |-> 3] >>
EndpointAt(k, authorizerId) ==
    [method |-> Slots[k].method, path |-> Slots[k].path, id |-> Slots[k].id,
     authorizerId |-> authorizerId]

\* Lists of endpoints with distinct (method, path): at most n of them in any
\* order, or any number in the order of Slots.
EndpointLists(n, ids) ==
    { l \in UNION { [1..k -> {EndpointAt(j, a) : j \in 1..Len(Slots), a \in ids}] :
                      k \in 0..n } :
        \A i, j \in 1..Len(l) :
            (l[i].method = l[j].method /\ l[i].path = l[j].path) => i = j }
OrderedEndpointLists(ids) ==
    { l \in EndpointLists(Len(Slots), ids) :
        \A i, j \in 1..Len(l) :
            i < j => \E a, b \in 1..Len(Slots) :
                        /\ a < b
                        /\ l[i].method = Slots[a].method /\ l[i].path = Slots[a].path
                        /\ l[j].method = Slots[b].method /\ l[j].path = Slots[b].path }

\* The authorizer the prior state records for a method of a node, 0 if none.
recordedAuthorizer(stateEndpoints, id, method) ==
    IF \E i \in 1..Len(stateEndpoints) :
           stateEndpoints[i].id = id /\ stateEndpoints[i].method = method
    THEN stateEndpoints[CHOOSE i \in 1..Len(stateEndpoints) :
             stateEndpoints[i].id = id /\ stateEndpoints[i].method = method].authorizerId
    ELSE 0

\* The authorizers of the runs, as apig.getAuthorizers lists them.
Authorizer7 == [id |-> 7, name |-> <<"f">>]
Authorizer8 == [id |-> 8, name |-> <<"g">>]
AuthorizerIds == {0, Authorizer7.id, Authorizer8.id}

\* The authorizers a method of a node can be bound to when the removal
\* phase starts: the one the prior state records for it, or the one of the
\* desired endpoint createMethod has bound (lines 265-268, 279-299).
boundAuthorizers(stateEndpoints, endpoints, id, method) ==
    {recordedAuthorizer(stateEndpoints, id, method)}
    \cup { endpoints[i].authorizerId :
             i \in { j \in 1..Len(endpoints) :
                       /\ endpoints[j].id = id
                       /\ endpoints[j].method = method
                       /\ endpoints[j].authorizerId # 0 } }

\* The method bindings a node can have: any of the methods bound.
methodBindings(stateEndpoints, endpoints, id, methods) ==
    { f \in UNION { [ms -> AuthorizerIds] : ms \in SUBSET methods } :
        \A m \in DOMAIN f : f[m] \in boundAuthorizers(stateEndpoints, endpoints, id, m) }

\* The remote trees of the runs: the root alone, with /a, or with /a and
\* /a/b, any of the methods bound.
GcTrees(stateEndpoints, endpoints) ==
    LET node2(f) == [id |-> 2, path |-> <<"/", "a">>, parentId |-> 1, methods |-> f]
        node3(f) == [id |-> 3, path |-> <<"/", "a", "/", "b">>, parentId |-> 2,
                     methods |-> f]
        on2 == methodBindings(stateEndpoints, endpoints, 2, {GET, POST})
        on3 == methodBindings(stateEndpoints, endpoints, 3, {GET})
    IN  {{Root}}
        \cup { {Root, node2(f)} : f \in on2 }
        \cup { {Root, node2(f2), node3(f3)} : f2 \in on2, f3 \in on3 }

GcInit ==
    /\ gcState \in EndpointLists(MaxPrior, AuthorizerIds)
    /\ gcEndpoints \in OrderedEndpointLists(AuthorizerIds)
    /\ resources \in GcTrees(gcState, gcEndpoints)
    /\ nextId = 4
    /\ authorizers = {Authorizer7, Authorizer8}
    /\ gcPc = "removeResources"
    /\ gcQueue = <<>>
    /\ gcRejected = FALSE
    /\ gcLog = <<>>

InitGc ==
    SchedulerIdle /\ NormIdle /\ ValidateIdle /\ PathsIdle /\ GcInit
        /\ AuthIdle /\ MethodsIdle

GcNext ==
    \/ GcGetResources
    \/ GcDeleteResource
    \/ GcDeleteMethod
    \/ GcUpdateMethod
    \/ GcDeleteAuthorizer

SpecGc == InitGc /\ [][GcNext]_vars

\* The deleteMethod call for the stale endpoint e has been made before the
\* i-th call of the log.
methodRemovedBefore(e, i) ==
    \E j \in 1..(i - 1) :
        gcLog[j].op = "deleteMethod" /\ gcLog[j].id = e.id /\ gcLog[j].method = e.method

\* C9: no resource listing or deleteResource call of the removal phase is
\* made before the deleteMethod of every stale endpoint has been made, and
\* no authorizer call is made before a listing or a deleteResource call.
C9_MethodsThenResourcesThenAuthorizers ==
    \A i \in 1..Len(gcLog) :
        /\ gcLog[i].op \in {"getResources", "deleteResource"} =>
              \A k \in 1..Len(outdatedEndpoints(gcEndpoints, gcState)) :
                  methodRemovedBefore(outdatedEndpoints(gcEndpoints, gcState)[k], i)
        /\ gcLog[i].op \in {"updateMethod", "deleteAuthorizer"} =>
              \A j \in 1..Len(gcLog) :
                  gcLog[j].op \in {"getResources", "deleteResource", "deleteMethod"} => j < i

\* C10: every deleteResource call of removeResources was applied to a node
\* that had no bound method and no child node at that moment (or to a node
\* that was already gone).
C10_OnlyEmptyLeavesDeleted ==
    \A i \in 1..Len(gcLog) :
        gcLog[i].op = "deleteResource" =>
            gcLog[i].hadMethods = 0 /\ gcLog[i].hadChildren = 0

\* C10 witness: two targets, one the parent of the other, have both been
\* deleted, the child in an earlier pass than the parent.
C10_Witness ==
    \E i, j \in 1..Len(gcLog) :
        /\ i < j
        /\ gcLog[i].op = "deleteResource" /\ gcLog[i].found /\ gcLog[i].id = 3
        /\ gcLog[j].op = "deleteResource" /\ gcLog[j].found /\ gcLog[j].id = 2
        /\ \E k \in (i + 1)..(j - 1) : gcLog[k].op = "getResources"

\* removeResources alone (lines 444-476), called with the prior endpoints as
\* its targets: the passes of listing and deleting, up to its return. Every
\* remote call it submits is eventually made and answered.
InitRemoveResources == InitGc /\ gcEndpoints = <<>>

RemoveResourcesNext ==
    \/ GcGetResources
    \/ GcDeleteResource

SpecRemoveResources ==
    InitRemoveResources /\ [][RemoveResourcesNext]_vars /\ WF_vars(RemoveResourcesNext)

\* A desired endpoint carries the authorizer id a.
carried(a) == \E j \in 1..Len(gcEndpoints) : gcEndpoints[j].authorizerId = a

\* The calls of the log with the given name.
callsOf(op) == {i \in 1..Len(gcLog) : gcLog[i].op = op}

\* C11: once the removal phase is over, no stale endpoint's method is bound
\* any more, and no node on the path of a stale endpoint (its own node or a
\* node above it, the root excepted) is left without a method and without
\* a child.
C11_StaleMethodsAndNodesAbsent ==
    gcPc = "done" =>
        \A k \in 1..Len(outdatedEndpoints(gcEndpoints, gcState)) :
            LET e == outdatedEndpoints(gcEndpoints, gcState)[k]
            IN  /\ ~\E n \in resources : n.id = e.id /\ e.method \in DOMAIN n.methods
                /\ \A n \in resources :
                      (n.path = e.path \/ n.path \in ancestorPaths(e.path) \ {<<"/">>}) =>
                          \/ DOMAIN n.methods # {}
                          \/ \E c \in resources : c.parentId = n.id

\* C13: every updateMethod (downgrade to NONE) and deleteAuthorizer call of
\* the removal phase is made for an authorizer id that no desired endpoint
\* carries, and the authorizer a downgrade takes off a method is not one a
\* desired endpoint carries.
C13_ReferencedAuthorizersKept ==
    \A i \in 1..Len(gcLog) :
        /\ gcLog[i].op \in {"updateMethod", "deleteAuthorizer"} =>
              ~carried(gcLog[i].authorizerId)
        /\ (gcLog[i].op = "updateMethod" /\ gcLog[i].found /\ gcLog[i].bound # 0) =>
              ~carried(gcLog[i].bound)

\* C14: once the removal phase is over, a deleteAuthorizer call has been
\* made for the authorizer of every prior endpoint whose authorizerId is set
\* and carried by no desired endpoint, whether the prior endpoint is stale
\* or still desired.
C14_StaleAuthorizersSeparate ==
    gcPc = "done" =>
        \A k \in 1..Len(gcState) :
            (gcState[k].authorizerId # 0 /\ ~authorizerInUse(gcEndpoints, gcState[k])) =>
                /\ \E i \in callsOf("deleteAuthorizer") :
                      gcLog[i].authorizerId = gcState[k].authorizerId
                /\ ~\E a \in authorizers : a.id = gcState[k].authorizerId

\* C17: in removeResources, between two listings a node of the first
\* listing has been deleted, no node is deleted twice, and the passes end:
\* removeResources returns (or throws).
C17_RemoveResourcesTerminates ==
    /\ [](\A i, j \in callsOf("getResources") :
             i < j => \E k \in (i + 1)..(j - 1) :
                         gcLog[k].op = "deleteResource" /\ gcLog[k].found)
    /\ [](\A i, j \in callsOf("deleteResource") :
             (gcLog[i].found /\ gcLog[j].found /\ gcLog[i].id = gcLog[j].id) => i = j)
    /\ <>(gcPc \notin {"removeResources", "deleteResources"})

\* C17 witness: removeResources is over after a pass that deleted a node,
\* with a second delete of that pass answered with not-found, and a last
\* pass in which no node qualified.
C17_Witness ==
    /\ gcPc \notin {"removeResources", "deleteResources"}
    /\ \E i, j \in callsOf("deleteResource") :
          /\ i < j
          /\ gcLog[i].found /\ ~gcLog[j].found
          /\ \E k \in callsOf("getResources") : k > j

\* C20: at most one deleteAuthorizer call is made per authorizer id, none is
\* answered with not-found, and the removal phase does not fail when every
\* downgraded method exists.
C20_OneDeletePerAuthorizer ==
    /\ (\A i \in callsOf("updateMethod") : gcLog[i].found) => gcPc # "failed"
    /\ \A i, j \in callsOf("deleteAuthorizer") :
          gcLog[i].authorizerId = gcLog[j].authorizerId => i = j
    /\ \A i \in callsOf("deleteAuthorizer") : gcLog[i].found

\* ------------------------------------------------------------------------
\* createAuthorizer and createAuthorizers (src/utils.js 484-542)
\* ------------------------------------------------------------------------

\* String.prototype.split(':'): the pieces of s between the colons.
RECURSIVE splitColon(_)
splitColon(s) ==
    IF \A i \in 1..Len(s) : s[i] # ":"
    THEN <<s>>
    ELSE LET i == CHOOSE k \in 1..Len(s) : s[k] = ":" /\ \A j \in 1..(k - 1) : s[j] # ":"
         IN  <<SubSeq(s, 1, i - 1)>> \o splitColon(SubSeq(s, i + 1, Len(s)))

\* Line 486: endpoint.authorizer.split(':')[6], undefined without a seventh
\* piece.
authorizerNameOf(authorizer) ==
    IF Len(splitColon(authorizer)) >= 7
    THEN Str(splitColon(authorizer)[7])
    ELSE Undefined

\* Lines 494-496 never finding an authorizer.
findAuthorizerNever(items, name) == 0

\* Lines 494-496: the id of the listed authorizer with this name, 0 if none.
findAuthorizer(items, name) ==
    IF name.t = "string" /\ \E a \in items : a.name = name.s
    THEN (CHOOSE a \in items : a.name = name.s).id
    ELSE 0

\* apig.createAuthorizer as the remote answers it: the new authorizer, or
\* the error code (a name is required).
createAuthorizerResponse(id, name, out) ==
    IF out # "ok" THEN [code |-> out]
    ELSE IF name.t # "string" THEN [code |-> "BadRequestException"]
    ELSE [code |-> "ok", item |-> [id |-> id, name |-> name.s]]

\* The authorizer functions of the runs: arn:aws:l:r:1:fn:f, the same with
\* function g, function f with a qualifier, and a bare function name.
ArnPrefix ==
    <<"a", "r", "n", ":", "a", "w", "s", ":", "l", ":", "r", ":", "1", ":", "f", "n", ":">>
FunctionF == ArnPrefix \o <<"f">>
FunctionG == ArnPrefix \o <<"g">>
FunctionFQualified == ArnPrefix \o <<"f", ":", "2">>
FunctionBare == <<"f">>
AuthorizerDeclarations ==
    {Undefined, Str(<<>>), Str(FunctionF), Str(FunctionG), Str(FunctionFQualified),
     Str(FunctionBare)}

\* What createAuthorizers' steps leave alone.
outsideAuth == <<schedVars, callerVars, normVars, validateVars, pathVars, methodVars,
                 resources, gcPc, gcEndpoints, gcState, gcQueue, gcRejected, gcLog>>

\* An authorizer call as the log keeps it: the endpoint it is made for and
\* that endpoint's authorizer function.
AuthorizerCall(op) ==
    [op |-> op, idx |-> caIdx, authorizer |-> caEndpoints[caIdx].authorizer]

\* createAuthorizer returns the endpoint (line 530); createAuthorizers
\* stores its authorizerId (line 537) and goes on to the next endpoint.
AuthReturn(endpoint) ==
    /\ caEndpoints' = [caEndpoints EXCEPT ![caIdx].authorizerId = endpoint.authorizerId]
    /\ caIdx' = caIdx + 1
    /\ caPc' = IF caIdx < Len(caEndpoints) THEN "call" ELSE "done"
    /\ caCreated' = 0

\* Lines 536-537 and 485: createAuthorizers calls createAuthorizer, which
\* returns at once for an endpoint without authorizer.
CreateAuthorizerCall ==
    /\ caPc = "call"
    /\ IF Falsy(caEndpoints[caIdx].authorizer)
       THEN AuthReturn(caEndpoints[caIdx])
       ELSE /\ caPc' = "getAuthorizers"
            /\ UNCHANGED <<caEndpoints, caIdx, caCreated>>
    /\ UNCHANGED <<caLog, authorizers, nextId>>
    /\ UNCHANGED outsideAuth

\* Lines 490-498 and 528: apig.getAuthorizers and the lookup by name.
CreateAuthorizerGetAuthorizers(out) ==
    /\ caPc = "getAuthorizers"
    /\ caLog' = Append(caLog, AuthorizerCall("getAuthorizers"))
    /\ LET id == findAuthorizer(authorizers, authorizerNameOf(caEndpoints[caIdx].authorizer.s))
       IN  IF out # "ok"
           THEN /\ caPc' = "failed"
                /\ UNCHANGED <<caEndpoints, caIdx, caCreated>>
           ELSE IF id # 0
           THEN AuthReturn([caEndpoints[caIdx] EXCEPT !.authorizerId = id])
           ELSE /\ caPc' = "createAuthorizer"
                /\ UNCHANGED <<caEndpoints, caIdx, caCreated>>
    /\ UNCHANGED <<authorizers, nextId>>
    /\ UNCHANGED outsideAuth

\* Lines 499-509: apig.createAuthorizer.
CreateAuthorizerCreate(out) ==
    /\ caPc = "createAuthorizer"
    /\ caLog' = Append(caLog, AuthorizerCall("createAuthorizer"))
    /\ LET r == createAuthorizerResponse(
                    nextId, authorizerNameOf(caEndpoints[caIdx].authorizer.s), out)
       IN  IF r.code = "ok"
           THEN /\ authorizers' = authorizers \cup {r.item}
                /\ nextId' = nextId + 1
                /\ caCreated' = r.item.id
                /\ caPc' = "addPermission"
           ELSE /\ caPc' = "failed"
                /\ UNCHANGED <<authorizers, nextId, caCreated>>
    /\ UNCHANGED <<caEndpoints, caIdx>>
    /\ UNCHANGED outsideAuth

\* Lines 519-528: lambda.addPermission; ResourceConflictException is
\* swallowed.
CreateAuthorizerAddPermission(out) ==
    /\ caPc = "addPermission"
    /\ caLog' = Append(caLog, AuthorizerCall("addPermission"))
    /\ IF out \in {"ok", "ResourceConflictException"}
       THEN AuthReturn([caEndpoints[caIdx] EXCEPT !.authorizerId = caCreated])
       ELSE /\ caPc' = "failed"
            /\ UNCHANGED <<caEndpoints, caIdx, caCreated>>
    /\ UNCHANGED <<authorizers, nextId>>
    /\ UNCHANGED outsideAuth

AuthInit ==
    /\ authorizers \in SUBSET {Authorizer7, Authorizer8}
    /\ nextId = 9
    /\ caEndpoints \in
          UNION { [1..k -> {[authorizer |-> a, authorizerId |-> 0] :
                              a \in AuthorizerDeclarations}] : k \in 1..MaxEndpoints }
    /\ caPc = "call"
    /\ caIdx = 1
    /\ caCreated = 0
    /\ caLog = <<>>
    /\ resources = {Root}
    /\ gcPc = "idle"
    /\ gcEndpoints = <<>>
    /\ gcState = <<>>
    /\ gcQueue = <<>>
    /\ gcRejected = FALSE
    /\ gcLog = <<>>

InitAuth ==
    SchedulerIdle /\ NormIdle /\ ValidateIdle /\ PathsIdle /\ AuthInit /\ MethodsIdle

AuthNext ==
    \/ CreateAuthorizerCall
    \/ \E out \in {"ok", "InternalFailure"} : CreateAuthorizerGetAuthorizers(out)
    \/ \E out \in {"ok", "InternalFailure"} : CreateAuthorizerCreate(out)
    \/ \E out \in {"ok", "ResourceConflictException", "InternalFailure"} :
          CreateAuthorizerAddPermission(out)

SpecAuth == InitAuth /\ [][AuthNext]_vars

\* C12: no two remote authorizers have the same name; at most one
\* createAuthorizer call is made per authorizer function; no call is made
\* for an endpoint without authorizer, whose authorizerId stays unset; the
\* endpoints createAuthorizers is through with that name the same function
\* carry the same authorizerId, the id of the remote authorizer named after
\* the function.
C12_OneAuthorizerPerFunction ==
    /\ \A a, b \in authorizers : a.name = b.name => a = b
    /\ \A i, j \in 1..Len(caLog) :
          (/\ caLog[i].op = "createAuthorizer"
           /\ caLog[j].op = "createAuthorizer"
           /\ caLog[i].authorizer = caLog[j].authorizer) => i = j
    /\ \A i \in 1..Len(caLog) : ~Falsy(caEndpoints[caLog[i].idx].authorizer)
    /\ \A i \in 1..Len(caEndpoints) :
          Falsy(caEndpoints[i].authorizer) => caEndpoints[i].authorizerId = 0
    /\ \A i, j \in 1..Len(caEndpoints) :
          (/\ i < caIdx /\ j < caIdx
           /\ ~Falsy(caEndpoints[i].authorizer)
           /\ caEndpoints[i].authorizer = caEndpoints[j].authorizer) =>
              /\ caEndpoints[i].authorizerId = caEndpoints[j].authorizerId
              /\ \E a \in authorizers :
                    /\ a.id = caEndpoints[i].authorizerId
                    /\ Str(a.name) = authorizerNameOf(caEndpoints[i].authorizer.s)

\* C12 witness: createAuthorizers is over for two endpoints naming the same
\* function, for which no authorizer existed: one createAuthorizer call has
\* been made and both endpoints carry the new authorizer's id.
C12_Witness ==
    /\ caPc = "done"
    /\ Len(caEndpoints) = 2
    /\ caEndpoints[1].authorizer = Str(FunctionF)
    /\ caEndpoints[2].authorizer = Str(FunctionF)
    /\ Cardinality({i \in 1..Len(caLog) : caLog[i].op = "createAuthorizer"}) = 1
    /\ caEndpoints[1].authorizerId = 9
    /\ caEndpoints[2].authorizerId = 9
    /\ [id |-> 9, name |-> <<"f">>] \in authorizers

\* ------------------------------------------------------------------------
\* createMethod and createMethods (src/utils.js 256-316)
\* ------------------------------------------------------------------------

\* Line 279 never taking the update branch.
conflictNeverUpdated(code, endpoint) == FALSE

\* Line 279: e.code === 'ConflictException' && endpoint.authorizerId
conflictWithAuthorizer(code, endpoint) ==
    code = "ConflictException" /\ endpoint.authorizerId # 0

\* The authorizer the endpoint's method is bound to in the remote API (0:
\* authorizationType NONE), -1 if the method is not bound.
boundTo(items, endpoint) ==
    IF \E n \in items : n.id = endpoint.id /\ endpoint.method \in DOMAIN n.methods
    THEN (CHOOSE n \in items : n.id = endpoint.id).methods[endpoint.method]
    ELSE -1

\* apig.putMethod as the remote answers it when the call goes through (out
\* is "ok"), or the error the call failed with.
putMethodResponse(items, endpoint, out) ==
    IF out # "ok" THEN out
    ELSE IF ~\E n \in items : n.id = endpoint.id THEN "NotFoundException"
    ELSE IF boundTo(items, endpoint) # -1 THEN "ConflictException"
    ELSE "ok"

\* apig.updateMethod likewise.
updateMethodResponse(items, endpoint, out) ==
    IF out # "ok" THEN out
    ELSE IF boundTo(items, endpoint) = -1 THEN "NotFoundException"
    ELSE "ok"

\* The remote tree with the endpoint's method bound as lines 257-268 and
\* 281-297 ask: authorizationType CUSTOM with endpoint.authorizerId, or NONE.
withMethod(items, endpoint) ==
    { IF n.id = endpoint.id
      THEN [n EXCEPT !.methods =
               [m \in DOMAIN n.methods \cup {endpoint.method} |->
                   IF m = endpoint.method THEN endpoint.authorizerId ELSE n.methods[m]]]
      ELSE n : n \in items }

\* What createMethods' steps leave alone.
outsideMethods == <<schedVars, callerVars, normVars, validateVars, pathVars, gcVars,
                    authVars, nextId>>

\* createMethods is over once no remote call of its createMethod calls is
\* left.
afterMethodCall(q) == IF q = <<>> THEN "done" ELSE "run"

\* Lines 276-303: apig.putMethod is answered; on a conflict for an endpoint
\* with an authorizerId the updateMethod call is submitted; another
\* conflict is swallowed; any other error is thrown.
CreateMethodPutMethod(out) ==
    /\ cmPc = "run"
    /\ Head(cmQueue).op = "putMethod"
    /\ LET i == Head(cmQueue).idx
           e == cmEndpoints[i]
           r == putMethodResponse(resources, e, out)
       IN  /\ cmCalls' = [cmCalls EXCEPT ![i].put = r, ![i].before = boundTo(resources, e)]
           /\ resources' = IF r = "ok" THEN withMethod(resources, e) ELSE resources
           /\ cmQueue' = IF conflictWithAuthorizer(r, e)
                         THEN Append(Tail(cmQueue), [op |-> "updateMethod", idx |-> i])
                         ELSE Tail(cmQueue)
           /\ cmStatus' = [cmStatus EXCEPT ![i] =
                              IF r = "ok" THEN "returned"
                              ELSE IF conflictWithAuthorizer(r, e) THEN "pending"
                              ELSE IF r # "ConflictException" THEN "thrown"
                              ELSE "returned"]
    /\ cmPc' = afterMethodCall(cmQueue')
    /\ UNCHANGED cmEndpoints
    /\ UNCHANGED outsideMethods

\* Line 299: apig.updateMethod is answered; its error is createMethod's.
CreateMethodUpdateMethod(out) ==
    /\ cmPc = "run"
    /\ Head(cmQueue).op = "updateMethod"
    /\ LET i == Head(cmQueue).idx
           e == cmEndpoints[i]
           r == updateMethodResponse(resources, e, out)
       IN  /\ cmCalls' = [cmCalls EXCEPT ![i].update = r]
           /\ resources' = IF r = "ok" THEN withMethod(resources, e) ELSE resources
           /\ cmStatus' = [cmStatus EXCEPT ![i] = IF r = "ok" THEN "returned" ELSE "thrown"]
    /\ cmQueue' = Tail(cmQueue)
    /\ cmPc' = afterMethodCall(cmQueue')
    /\ UNCHANGED cmEndpoints
    /\ UNCHANGED outsideMethods

\* The remote trees createMethods is run against: the root alone, with /a,
\* or with /a and /a/b, any of the methods bound to any authorizer or none.
MethodTrees ==
    LET bindings(methods) == UNION { [ms -> AuthorizerIds] : ms \in SUBSET methods }
    IN  {{Root}}
        \cup { {Root, [id |-> 2, path |-> <<"/", "a">>, parentId |-> 1, methods |-> f]} :
                 f \in bindings({GET, POST}) }
        \cup { {Root, [id |-> 2, path |-> <<"/", "a">>, parentId |-> 1, methods |-> f2],
                [id |-> 3, path |-> <<"/", "a", "/", "b">>, parentId |-> 2,
                 methods |-> f3]} :
                 f2 \in bindings({GET, POST}), f3 \in bindings({GET}) }

\* Lines 306-313: every createMethod call runs up to its putMethod, which
\* it submits.
MethodsInit ==
    /\ cmEndpoints \in EndpointLists(MaxEndpoints, AuthorizerIds)
    /\ cmQueue = [i \in 1..Len(cmEndpoints) |-> [op |-> "putMethod", idx |-> i]]
    /\ cmPc = afterMethodCall(cmQueue)
    /\ cmStatus = [i \in 1..Len(cmEndpoints) |-> "pending"]
    /\ cmCalls = [i \in 1..Len(cmEndpoints) |->
                     [put |-> "none", update |-> "none", before |-> -1]]
    /\ resources \in MethodTrees
    /\ nextId = 4
    /\ authorizers = {Authorizer7, Authorizer8}
    /\ gcPc = "idle"
    /\ gcEndpoints = <<>>
    /\ gcState = <<>>
    /\ gcQueue = <<>>
    /\ gcRejected = FALSE
    /\ gcLog = <<>>

InitMethods ==
    SchedulerIdle /\ NormIdle /\ ValidateIdle /\ PathsIdle /\ AuthIdle /\ MethodsInit

MethodsNext ==
    \/ \E out \in {"ok", "InternalFailure"} : CreateMethodPutMethod(out)
    \/ \E out \in {"ok", "InternalFailure"} : CreateMethodUpdateMethod(out)

SpecMethods == InitMethods /\ [][MethodsNext]_vars

\* C19: a createMethod call that has returned for an endpoint with an
\* authorizerId has left the remote method bound to that authorizer,
\* whether it created the method or found it; a conflict for an endpoint
\* without authorizerId is swallowed, with no further call and the method
\* as it was; a putMethod or updateMethod failure that is not a conflict is
\* thrown, and nothing else is.
C19_AuthorizerBindingSelfHealing ==
    \A i \in 1..Len(cmEndpoints) :
        LET e == cmEndpoints[i]
            c == cmCalls[i]
        IN  /\ (cmStatus[i] = "returned" /\ e.authorizerId # 0) =>
                  boundTo(resources, e) = e.authorizerId
            /\ (c.put = "ConflictException" /\ e.authorizerId = 0) =>
                  /\ cmStatus[i] = "returned"
                  /\ c.update = "none"
                  /\ c.before # -1
                  /\ boundTo(resources, e) = c.before
            /\ cmStatus[i] = "thrown" <=>
                  \/ c.put \notin {"none", "ok", "ConflictException"}
                  \/ c.update \notin {"none", "ok"}

\* C19 witness: createMethod has returned for an endpoint with authorizer 8
\* whose method existed and was bound to authorizer 7: putMethod was
\* answered with a conflict, updateMethod went through, and the method is
\* bound to authorizer 8.
C19_Witness ==
    \E i \in 1..Len(cmEndpoints) :
        /\ cmEndpoints[i].authorizerId = Authorizer8.id
        /\ cmCalls[i].before = Authorizer7.id
        /\ cmCalls[i].put = "ConflictException"
        /\ cmCalls[i].update = "ok"
        /\ cmStatus[i] = "returned"
        /\ boundTo(resources, cmEndpoints[i]) = Authorizer8.id

====
